---- MODULE Spec2Model ----
(***************************************************************************)
(* Document_ocr: a Flask front end (src/app.py) that stores uploaded PDFs, *)
(* runs the four-stage LLM prompt chain of src/secondary.py over them and  *)
(* serves the rendered balance sheet.                                      *)
(*                                                                         *)
(* Texts (file names, LLM replies) are sequences of atoms: an atom is a    *)
(* one-character string, or a word that contains none of the characters    *)
(* the code looks at.  The session is Flask's cookie session: a request    *)
(* works on its own copy, and the copy replaces the client's cookie when   *)
(* the response is returned and the copy was modified.                     *)
(***************************************************************************)
EXTENDS Integers, Sequences, FiniteSets, TLC

VARIABLES
    cookie,        \* cookie[s]: the session dict held by client s
    req,           \* req[r]: the upload request running in worker r
    uploadFolder,  \* UPLOAD_FOLDER: path -> file
    outputFolder,  \* OUTPUT_FOLDER: name -> file
    api_key,       \* os.getenv('ANTHROPIC_API_KEY') is set
    rand,          \* rand[s]: values drawn from secrets for client s so far
    nreq,          \* nreq[s]: upload requests received from client s so far
    resp           \* the response returned by the step just taken, if any

vars == <<cookie, req, uploadFolder, outputFolder, api_key, rand, nreq, resp>>

----------------------------------------------------------------------------
(* Bounds *)

MaxSessions == 2      \* clients
MaxWorkers  == 2      \* upload requests served at the same time
MaxUploads  == 3      \* upload requests in one run

Sessions == 1 .. MaxSessions

\* the k-th of the things numbered per client s (values of secrets,
\* requests): different for different s or k, and never None
Numbered(s, k) == k * (MaxSessions + 1) + s

RECURSIVE SumTo(_, _)
SumTo(f, n) == IF n = 0 THEN 0 ELSE f[n] + SumTo(f, n - 1)

Total(f) == SumTo(f, MaxSessions)
Workers  == 1 .. MaxWorkers

----------------------------------------------------------------------------
(* Program constants, src/app.py:29-31 *)

ALLOWED_EXTENSIONS == {<<"p", "d", "f">>}
MAX_FILES == 5
MAX_FILE_SIZE == 10 * 1024 * 1024

None == 0             \* Python's None / an absent session key or form field

----------------------------------------------------------------------------
(* Sequences of atoms *)

\* the elements of s that are in the set keep, in order
RECURSIVE SeqFilter(_, _)
SeqFilter(s, keep) ==
    IF s = <<>> THEN <<>>
    ELSE IF Head(s) \in keep THEN <<Head(s)>> \o SeqFilter(Tail(s), keep)
         ELSE SeqFilter(Tail(s), keep)

Positions(s, c) == {i \in 1 .. Len(s) : s[i] = c}

Max(S) == CHOOSE m \in S : \A n \in S : n <= m
Min(S) == CHOOSE m \in S : \A n \in S : m <= n

\* str.lower() on the letters the model uses
lower(s) ==
    [i \in 1 .. Len(s) |->
        CASE s[i] = "P" -> "p"
          [] s[i] = "D" -> "d"
          [] s[i] = "F" -> "f"
          [] s[i] = "A" -> "a"
          [] OTHER -> s[i]]

\* str.strip(chars)
RECURSIVE lstrip(_, _)
lstrip(s, chars) ==
    IF s # <<>> /\ Head(s) \in chars THEN lstrip(Tail(s), chars) ELSE s

RECURSIVE rstrip(_, _)
rstrip(s, chars) ==
    IF s # <<>> /\ s[Len(s)] \in chars
    THEN rstrip(SubSeq(s, 1, Len(s) - 1), chars) ELSE s

strip(s, chars) == rstrip(lstrip(s, chars), chars)

----------------------------------------------------------------------------
(* File-name checks, src/app.py:85-102 and werkzeug's secure_filename *)

\* '.' in filename and filename.rsplit('.', 1)[1].lower() in ALLOWED_EXTENSIONS
allowed_file_dot(filename) == Positions(filename, ".") # {}

allowed_file(filename) ==
    /\ Positions(filename, ".") # {}
    /\ LET dot == Max(Positions(filename, "."))
       IN  lower(SubSeq(filename, dot + 1, Len(filename))) \in ALLOWED_EXTENSIONS

\* file.seek(0, os.SEEK_END); file.tell(): the number of bytes of the upload
validate_file_size(file) == file.size

Ascii      == {"a", "b", "p", "d", "f", "t", "x", "A", "P", "D", "F",
               ".", "_", "-", "/", " "}
AsciiSafe  == Ascii \ {"/", " "}        \* [A-Za-z0-9_.-]
Whitespace == {" ", "\n"}

\* "_".join(s.split()): every run of whitespace between two words becomes
\* one "_"; whitespace at the ends disappears
RECURSIVE JoinWords(_, _, _)
JoinWords(s, started, pending) ==
    IF s = <<>> THEN <<>>
    ELSE IF Head(s) \in Whitespace THEN JoinWords(Tail(s), started, started)
         ELSE (IF pending THEN <<"_">> ELSE <<>>)
                  \o <<Head(s)>> \o JoinWords(Tail(s), TRUE, FALSE)

\* werkzeug.utils.secure_filename: drop what is not ASCII, turn path
\* separators into spaces, join the words with "_", keep [A-Za-z0-9_.-],
\* strip leading and trailing "." and "_"
secure_filename(filename) ==
    LET ascii  == SeqFilter(filename, Ascii)
        spaced == [i \in 1 .. Len(ascii) |-> IF ascii[i] = "/" THEN " " ELSE ascii[i]]
        joined == JoinWords(spaced, FALSE, FALSE)
    IN  strip(SeqFilter(joined, AsciiSafe), {".", "_"})

----------------------------------------------------------------------------
(* JSON values and json.loads / json.dumps *)

QUOTE == "\""
BSL   == "\\"
FENCE == "<fence>"     \* the three backticks of a code fence

\* a parsed JSON value: k is the Python type, v the content
\*   dict: the sequence of its <<key, value>> items, in insertion order
JNull     == [k |-> "NoneType", v |-> <<>>]
JBool(b)  == [k |-> "bool", v |-> b]
JNum(n)   == [k |-> "int",  v |-> n]
JStr(s)   == [k |-> "str",  v |-> s]
JList(es) == [k |-> "list", v |-> es]
JDict(ms) == [k |-> "dict", v |-> ms]

isinstance(x, type) == x.k = type

Keys(d) == {d.v[i][1] : i \in 1 .. Len(d.v)}

\* d[key] = val: a new key goes last, a key already there keeps its place
DictPut(ms, key, val) ==
    IF \E i \in 1 .. Len(ms) : ms[i][1] = key
    THEN [i \in 1 .. Len(ms) |-> IF ms[i][1] = key THEN <<key, val>> ELSE ms[i]]
    ELSE Append(ms, <<key, val>>)

\* dict.get(key, default)
get(d, key, default) ==
    IF key \in Keys(d)
    THEN d.v[CHOOSE i \in 1 .. Len(d.v) : d.v[i][1] = key][2]
    ELSE default

\* bool(x)
truthy(x) ==
    CASE x.k = "NoneType" -> FALSE
      [] x.k = "bool"     -> x.v
      [] x.k = "int"      -> x.v # 0
      [] OTHER            -> x.v # <<>>

At(t, i) == IF i >= 1 /\ i <= Len(t) THEN t[i] ELSE ""

\* json.decoder.WHITESPACE.match(s, i).end()
RECURSIVE SkipWs(_, _)
SkipWs(t, i) == IF At(t, i) \in Whitespace THEN SkipWs(t, i + 1) ELSE i

Digits == {"0", "1"}
DigitVal(c) == IF c = "1" THEN 1 ELSE 0

\* what a backslash followed by the atom c decodes to inside a string
Unescape(c) ==
    CASE c = QUOTE -> <<QUOTE>>
      [] c = BSL   -> <<BSL>>
      [] c = "/"   -> <<"/">>
      [] c = "b"   -> <<"\\b">>
      [] c = "true"  -> <<"\\t", "rue">>
      [] c = "false" -> <<"\\f", "alse">>
      [] c = "null"  -> <<"\\n", "ull">>
      [] c = "balance_difference" -> <<"\\b", "alance_difference">>
      [] OTHER -> <<>>

Fail == [ok |-> FALSE, val |-> JNull, next |-> 0]
Ok(val, next) == [ok |-> TRUE, val |-> val, next |-> next]

\* json.decoder.scanstring: i is the position after the opening quote
RECURSIVE ParseString(_, _, _)
ParseString(t, i, acc) ==
    LET c == At(t, i)
    IN  CASE c = ""    -> Fail                      \* unterminated string
          [] c = QUOTE -> Ok(JStr(acc), i + 1)
          [] c = "\n"  -> Fail                      \* control character
          [] c = BSL   -> IF Unescape(At(t, i + 1)) = <<>> THEN Fail
                          ELSE ParseString(t, i + 2, acc \o Unescape(At(t, i + 1)))
          [] OTHER     -> ParseString(t, i + 1, Append(acc, c))

\* the number regex -?(0|[1-9]\d*) on the digits of the model
RECURSIVE ParseDigits(_, _, _)
ParseDigits(t, i, n) ==
    IF At(t, i) \in Digits THEN ParseDigits(t, i + 1, 10 * n + DigitVal(t[i]))
    ELSE Ok(JNum(n), i)

ParseNumber(t, i) ==
    IF t[i] = "0" THEN Ok(JNum(0), i + 1) ELSE ParseDigits(t, i, 0)

RECURSIVE ParseValue(_, _)
RECURSIVE ParseMembers(_, _, _)
RECURSIVE ParseElements(_, _, _)

\* json.decoder.JSONObject: after a member, at position m, comes the end of
\* the object or a comma and the next key
MembersNext(t, ms, m) ==
    IF At(t, m) = "}" THEN Ok(JDict(ms), m + 1)
    ELSE IF At(t, m) = "," /\ At(t, SkipWs(t, m + 1)) = QUOTE
         THEN ParseMembers(t, SkipWs(t, m + 1), ms)
    ELSE Fail

\* the value of a member has been scanned
MembersValue(t, acc, key, val) ==
    IF ~val.ok THEN Fail
    ELSE MembersNext(t, DictPut(acc, key.val.v, val.val), SkipWs(t, val.next))

\* the key of a member has been scanned: a colon and the value follow
MembersKey(t, acc, key) ==
    IF ~key.ok \/ At(t, SkipWs(t, key.next)) # ":" THEN Fail
    ELSE MembersValue(t, acc, key, ParseValue(t, SkipWs(t, SkipWs(t, key.next) + 1)))

\* json.decoder.JSONObject from the first key on: j is at its opening quote
ParseMembers(t, j, acc) == MembersKey(t, acc, ParseString(t, j + 1, <<>>))

\* json.decoder.JSONArray: after the elements acc, at position m, comes the
\* end of the array or a comma and the next element
ElementsNext(t, acc, m) ==
    IF At(t, m) = "]" THEN Ok(JList(acc), m + 1)
    ELSE IF At(t, m) = "," THEN ParseElements(t, SkipWs(t, m + 1), acc)
    ELSE Fail

\* an element has been scanned
ElementsValue(t, acc, val) ==
    IF ~val.ok THEN Fail
    ELSE ElementsNext(t, Append(acc, val.val), SkipWs(t, val.next))

\* json.decoder.JSONArray from the first element on
ParseElements(t, j, acc) == ElementsValue(t, acc, ParseValue(t, j))

\* json.scanner.scan_once
ParseValue(t, i) ==
    LET c == At(t, i)
        j == SkipWs(t, i + 1)
    IN  CASE c = QUOTE   -> ParseString(t, i + 1, <<>>)
          [] c = "{"     -> IF At(t, j) = "}" THEN Ok(JDict(<<>>), j + 1)
                            ELSE IF At(t, j) = QUOTE THEN ParseMembers(t, j, <<>>)
                            ELSE Fail
          [] c = "["     -> IF At(t, j) = "]" THEN Ok(JList(<<>>), j + 1)
                            ELSE ParseElements(t, j, <<>>)
          [] c = "null"  -> Ok(JNull, i + 1)
          [] c = "true"  -> Ok(JBool(TRUE), i + 1)
          [] c = "false" -> Ok(JBool(FALSE), i + 1)
          [] c \in Digits -> ParseNumber(t, i)
          [] OTHER       -> Fail

\* json.decoder.JSONDecoder.decode: the value scanned must be the whole text
decode(t, r) == IF r.ok /\ SkipWs(t, r.next) = Len(t) + 1 THEN r ELSE Fail

\* json.loads(t): ok = FALSE stands for json.JSONDecodeError
json_loads(t) == decode(t, ParseValue(t, SkipWs(t, 1)))

RECURSIVE Spaces(_)
Spaces(n) == IF n <= 0 THEN <<>> ELSE <<" ">> \o Spaces(n - 1)

RECURSIVE DumpDigits(_)
DumpDigits(n) ==
    IF n < 10 THEN <<IF n = 1 THEN "1" ELSE "0">>
    ELSE DumpDigits(n \div 10) \o <<IF n % 10 = 1 THEN "1" ELSE "0">>

\* json.encoder's escaping of a string
RECURSIVE DumpChars(_)
DumpChars(s) ==
    IF s = <<>> THEN <<>>
    ELSE (IF Head(s) \in {QUOTE, BSL} THEN <<BSL, Head(s)>> ELSE <<Head(s)>>)
             \o DumpChars(Tail(s))

RECURSIVE Dump(_, _, _)
RECURSIVE DumpItems(_, _, _, _)

\* the items of a list (isDict = FALSE) or dict, from the first one on
DumpItems(es, isDict, indent, level) ==
    LET nl   == IF indent = None THEN <<>> ELSE <<"\n">> \o Spaces(indent * level)
        sep  == IF indent = None THEN <<",", " ">> ELSE <<",">>
        item == IF isDict
                THEN <<QUOTE>> \o DumpChars(Head(es)[1]) \o <<QUOTE, ":", " ">>
                         \o Dump(Head(es)[2], indent, level)
                ELSE Dump(Head(es), indent, level)
    IN  nl \o item \o (IF Len(es) = 1 THEN <<>>
                       ELSE sep \o DumpItems(Tail(es), isDict, indent, level))

\* json.dumps(x, indent=indent): the text of x nested level deep
Dump(x, indent, level) ==
    LET close == IF indent = None THEN <<>> ELSE <<"\n">> \o Spaces(indent * level)
    IN  CASE x.k = "NoneType" -> <<"null">>
          [] x.k = "bool" -> <<IF x.v THEN "true" ELSE "false">>
          [] x.k = "int"  -> DumpDigits(x.v)
          [] x.k = "str"  -> <<QUOTE>> \o DumpChars(x.v) \o <<QUOTE>>
          [] x.k = "list" -> IF x.v = <<>> THEN <<"[", "]">>
                             ELSE <<"[">> \o DumpItems(x.v, FALSE, indent, level + 1)
                                      \o close \o <<"]">>
          [] x.k = "dict" -> IF x.v = <<>> THEN <<"{", "}">>
                             ELSE <<"{">> \o DumpItems(x.v, TRUE, indent, level + 1)
                                      \o close \o <<"}">>

json_dumps(x, indent) == Dump(x, indent, 0)

----------------------------------------------------------------------------
(* _extract_json, src/secondary.py:32-84 *)

\* re.sub(r'```json\s*|\s*```', '', text): at each position the first
\* alternative is tried first, then the second; a match is removed and
\* the scan goes on behind it
RECURSIVE StripFences(_)
StripFences(t) ==
    LET ws == SkipWs(t, 1)
    IN  IF t = <<>> THEN <<>>
        ELSE IF t[1] = FENCE /\ At(t, 2) = "json"
        THEN StripFences(SubSeq(t, SkipWs(t, 3), Len(t)))
        ELSE IF At(t, ws) = FENCE
        THEN StripFences(SubSeq(t, ws + 1, Len(t)))
        ELSE <<t[1]>> \o StripFences(Tail(t))

RECURSIVE ScanBraces_unquoted(_, _, _, _, _)
ScanBraces_unquoted(t, i, brace_count, in_string, escape_next) ==
    IF i > Len(t) THEN 0
    ELSE IF t[i] = "{"
    THEN ScanBraces_unquoted(t, i + 1, brace_count + 1, in_string, escape_next)
    ELSE IF t[i] = "}"
         THEN IF brace_count - 1 = 0 THEN i
              ELSE ScanBraces_unquoted(t, i + 1, brace_count - 1, in_string, escape_next)
    ELSE ScanBraces_unquoted(t, i + 1, brace_count, in_string, escape_next)

\* Attempt 2: the position of the '}' that brings brace_count back to 0,
\* or 0 when the loop ends without reaching it
RECURSIVE ScanBraces(_, _, _, _, _)
ScanBraces(t, i, brace_count, in_string, escape_next) ==
    IF i > Len(t) THEN 0
    ELSE IF escape_next THEN ScanBraces(t, i + 1, brace_count, in_string, FALSE)
    ELSE IF t[i] = BSL THEN ScanBraces(t, i + 1, brace_count, in_string, TRUE)
    ELSE IF t[i] = QUOTE THEN ScanBraces(t, i + 1, brace_count, ~in_string, FALSE)
    ELSE IF in_string THEN ScanBraces(t, i + 1, brace_count, in_string, FALSE)
    ELSE IF t[i] = "{" THEN ScanBraces(t, i + 1, brace_count + 1, in_string, FALSE)
    ELSE IF t[i] = "}"
         THEN IF brace_count - 1 = 0 THEN i
              ELSE ScanBraces(t, i + 1, brace_count - 1, in_string, FALSE)
    ELSE ScanBraces(t, i + 1, brace_count, in_string, FALSE)

\* Attempt 3: re.sub(r',(\s*[}\]])', r'\1', text)
RECURSIVE DropTrailingCommas(_)
DropTrailingCommas(t) ==
    IF t = <<>> THEN <<>>
    ELSE IF t[1] = "," /\ At(t, SkipWs(t, 2)) \in {"}", "]"}
         THEN DropTrailingCommas(Tail(t))
         ELSE <<t[1]>> \o DropTrailingCommas(Tail(t))

\* Attempt 2: the text from the first '{' to the '}' that balances it, or
\* nothing when there is none (the attempt then parses nothing)
BalancedText(text, start) ==
    IF start = 0 \/ ScanBraces(text, start, 0, FALSE, FALSE) = 0 THEN <<>>
    ELSE SubSeq(text, start, ScanBraces(text, start, 0, FALSE, FALSE))

\* the first attempt that parses
FirstOk(attempts) ==
    IF attempts[1].ok THEN attempts[1]
    ELSE IF attempts[2].ok THEN attempts[2]
    ELSE attempts[3]

\* the three attempts on the cleaned text: ok = FALSE stands for ValueError
ExtractAttempts(text) ==
    LET start == IF Positions(text, "{") = {} THEN 0 ELSE Min(Positions(text, "{"))
        texts == <<text, BalancedText(text, start), DropTrailingCommas(text)>>
    IN  FirstOk([i \in 1 .. 3 |-> json_loads(texts[i])])

_extract_json(text) == ExtractAttempts(strip(StripFences(text), Whitespace))

----------------------------------------------------------------------------
(* The four stages, src/secondary.py:121-473.  A reply is what          *)
(* client.messages.create gave: a text, or an exception of the API client. *)

Reply(text) == [raised |-> FALSE, text |-> text]
APIError    == [raised |-> TRUE,  text |-> <<>>]

\* what a stage function does: return a value or raise
Return(value) == [raised |-> FALSE, exc |-> "", value |-> value]
Raise(exc)    == [raised |-> TRUE,  exc |-> exc, value |-> JNull]

Stages == <<"analysis", "extraction", "validation", "formatting">>

DefaultSummary == JDict(<< <<(<<"document_quality">>), JStr(<<"unknown">>)>> >>)

\* the data each stage puts into its prompt
AnalysisPrompt                  == <<>>
ExtractionPrompt(doc_summary)   == json_dumps(doc_summary, None)
ValidationPrompt(extracted_data) == json_dumps(extracted_data, 2)
FormattingPrompt(validated_data) == json_dumps(validated_data, 2)

Summary_strict(parsed) == IF parsed.ok THEN Return(parsed.val) ELSE Raise("ValueError")

\* src/secondary.py:153-160
Summary(parsed) == IF parsed.ok THEN Return(parsed.val) ELSE Return(DefaultSummary)

\* src/secondary.py:150-160
_analyze_documents(reply) ==
    IF reply.raised THEN Raise("APIError")
    ELSE Summary(_extract_json(strip(reply.text, Whitespace)))

Extracted_lenient(parsed) == IF parsed.ok THEN Return(parsed.val) ELSE Return(JDict(<<>>))

\* src/secondary.py:287-293
Extracted(parsed) == IF parsed.ok THEN Return(parsed.val) ELSE Raise("ValueError")

\* src/secondary.py:284-293
_extract_financial_data(reply) ==
    IF reply.raised THEN Raise("APIError")
    ELSE Extracted(_extract_json(strip(reply.text, Whitespace)))

\* f"{diff:,.2f}": numbers format, a str raises ValueError, the rest TypeError
FormatFloat(diff) ==
    CASE diff.k \in {"int", "bool"} -> ""
      [] diff.k = "str"             -> "ValueError"
      [] OTHER                      -> "TypeError"

\* len(x): numbers and None have no len()
LenError(x) == IF x.k \in {"int", "bool", "NoneType"} THEN "TypeError" ELSE ""

\* src/secondary.py:335-353
Validated(parsed, extracted_data) ==
    LET result      == parsed.val
        is_balanced == get(result, <<"is_balanced">>, JBool(FALSE))
        diff        == get(result, <<"balance_difference">>, JNum(0))
        corrections == get(result, <<"corrections_made">>, JList(<<>>))
        warn        == IF truthy(is_balanced) THEN "" ELSE FormatFloat(diff)
        count       == IF truthy(corrections) THEN LenError(corrections) ELSE ""
    IN  IF ~parsed.ok THEN Return(extracted_data)
        ELSE IF ~isinstance(result, "dict") THEN Raise("AttributeError")
        ELSE IF warn = "ValueError" THEN Return(extracted_data)
        ELSE IF warn # "" THEN Raise(warn)
        ELSE IF count # "" THEN Raise(count)
        ELSE Return(get(result, <<"corrected_data">>, extracted_data))

\* src/secondary.py:332-353
_validate_and_calculate(reply, extracted_data) ==
    IF reply.raised THEN Raise("APIError")
    ELSE Validated(_extract_json(strip(reply.text, Whitespace)), extracted_data)

\* src/secondary.py:458-461
_format_balance_sheet(reply) ==
    IF reply.raised THEN Raise("APIError")
    ELSE Return(strip(reply.text, Whitespace))

\* re.sub(r'```[a-z]*\n?', '', text)
LowerWords == {"json", "a", "b", "x", "true", "false", "null"}

RECURSIVE SkipLower(_, _)
SkipLower(t, i) == IF At(t, i) \in LowerWords THEN SkipLower(t, i + 1) ELSE i

RECURSIVE DropFenceLines(_)
DropFenceLines(t) ==
    LET w == SkipLower(t, 2)
        e == IF At(t, w) = "\n" THEN w + 1 ELSE w
    IN  IF t = <<>> THEN <<>>
        ELSE IF t[1] = FENCE THEN DropFenceLines(SubSeq(t, e, Len(t)))
        ELSE <<t[1]>> \o DropFenceLines(Tail(t))

\* re.sub(r'\n{3,}', '\n\n', text)
RECURSIVE SkipNewlines(_, _)
SkipNewlines(t, i) == IF At(t, i) = "\n" THEN SkipNewlines(t, i + 1) ELSE i

RECURSIVE SqueezeNewlines(_)
SqueezeNewlines(t) ==
    LET e == SkipNewlines(t, 1)
    IN  IF t = <<>> THEN <<>>
        ELSE IF e > 3 THEN <<"\n", "\n">> \o SqueezeNewlines(SubSeq(t, e, Len(t)))
        ELSE <<t[1]>> \o SqueezeNewlines(Tail(t))

Markdown == {"*", "|", "#"}

\* src/secondary.py:464-473
_cleanup_formatting(text) ==
    strip(SqueezeNewlines(SeqFilter(DropFenceLines(text),
                                    {text[i] : i \in 1 .. Len(text)} \ Markdown)),
          Whitespace)

----------------------------------------------------------------------------
(* create_pdf, src/secondary.py:510-862: the story (the list of flowables) *)
(* that the structured build hands to the document template.  A sheet is   *)
(* a sequence of characters here; EURO and BULLET stand for the euro sign  *)
(* and the bullet.                                                         *)

EURO   == "euro"
BULLET == "bullet"

LowerCase == <<"a", "b", "c", "d", "e", "f", "g", "h", "i", "j", "k", "l", "m",
               "n", "o", "p", "q", "r", "s", "t", "u", "v", "w", "x", "y", "z">>
UpperCase == <<"A", "B", "C", "D", "E", "F", "G", "H", "I", "J", "K", "L", "M",
               "N", "O", "P", "Q", "R", "S", "T", "U", "V", "W", "X", "Y", "Z">>

\* str.upper()
upper(s) ==
    [i \in 1 .. Len(s) |->
        IF \E k \in 1 .. 26 : LowerCase[k] = s[i]
        THEN UpperCase[CHOOSE k \in 1 .. 26 : LowerCase[k] = s[i]]
        ELSE s[i]]

\* c.isupper() of one character
isupper(c) == \E k \in 1 .. 26 : UpperCase[k] = c

\* needle in s
Contains(s, needle) ==
    \E i \in 1 .. Len(s) - Len(needle) + 1 : SubSeq(s, i, i + Len(needle) - 1) = needle

\* any(x in s for x in needles)
ContainsAny(s, needles) == \E needle \in needles : Contains(s, needle)

\* s.split(sep) for a separator of one character
RECURSIVE split(_, _)
split(s, sep) ==
    IF Positions(s, sep) = {} THEN <<s>>
    ELSE <<SubSeq(s, 1, Min(Positions(s, sep)) - 1)>>
             \o split(SubSeq(s, Min(Positions(s, sep)) + 1, Len(s)), sep)

\* s[:n]
Take(s, n) == SubSeq(s, 1, IF Len(s) < n THEN Len(s) ELSE n)

\* the flowables.  The text of a paragraph is a sequence of lines, joined
\* by <br/>; a table is a sequence of rows of two cells
Paragraph(text, style) == [kind |-> "Paragraph", text |-> text, style |-> style]
Table(rows) == [kind |-> "Table", rows |-> rows]
Spacer      == [kind |-> "Spacer"]
PageBreak   == [kind |-> "PageBreak"]

\* 'S.R.L.', 'S.P.A.', 'S.R.L', 'S.P.A', 'SRL', 'SPA': a line that contains
\* 'S.R.L.' contains 'S.R.L', and the same for 'S.P.A.'
CompanyKeywords ==
    {<<"S", ".", "R", ".", "L">>, <<"S", ".", "P", ".", "A">>,
     <<"S", "R", "L">>, <<"S", "P", "A">>}

KwSTATO  == <<"S", "T", "A", "T", "O">>
KwATTIVO == <<"A", "T", "T", "I", "V", "O">>
KwAL     == <<"A", "L">>

Dates ==
    {<<"3", "1", "/", "1", "2">>, <<"3", "1", "/", "0", "3">>,
     <<"3", "0", "/", "0", "6">>, <<"3", "0", "/", "0", "9">>}

HdrAttivo ==
    <<"S", "T", "A", "T", "O", " ", "P", "A", "T", "R", "I", "M", "O", "N",
      "I", "A", "L", "E", " ", "-", " ", "A", "T", "T", "I", "V", "O">>

HdrPassivo ==
    <<"S", "T", "A", "T", "O", " ", "P", "A", "T", "R", "I", "M", "O", "N",
      "I", "A", "L", "E", " ", "-", " ", "P", "A", "S", "S", "I", "V", "O">>

HdrConto ==
    <<"C", "O", "N", "T", "O", " ", "E", "C", "O", "N", "O", "M", "I", "C", "O">>

HdrNota ==
    <<"N", "O", "T", "A", " ", "I", "N", "T", "E", "G", "R", "A", "T", "I", "V", "A">>

\* lines 657-664: the loop that collects company_info
RECURSIVE CompanyInfo(_, _)
CompanyInfo(lines, company_info) ==
    IF lines = <<>> THEN company_info
    ELSE IF ContainsAny(upper(Head(lines)), CompanyKeywords)
    THEN Append(company_info, strip(Head(lines), Whitespace))
    ELSE IF /\ strip(Head(lines), Whitespace) # <<>>
            /\ Len(strip(Head(lines), Whitespace)) < 100
            /\ ~ContainsAny(Head(lines), {KwSTATO, KwATTIVO, KwAL})
    THEN CompanyInfo(Tail(lines), Append(company_info, strip(Head(lines), Whitespace)))
    ELSE CompanyInfo(Tail(lines), company_info)

\* lines 670-673: the first line that gives the date of the sheet
RECURSIVE DateInfo(_)
DateInfo(lines) ==
    IF lines = <<>> THEN <<>>
    ELSE IF Contains(upper(Head(lines)), KwAL) /\ ContainsAny(Head(lines), Dates)
    THEN <<Paragraph(<<strip(Head(lines), Whitespace)>>, "CompanyInfo")>>
    ELSE DateInfo(Tail(lines))

\* lines 648-675, given the company_info collected
HeaderSection(lines, company_info) ==
    <<Paragraph(<< <<"BILANCIO D'ESERCIZIO">> >>, "HeaderTitle"),
      Paragraph(<< <<"STATO PATRIMONIALE E CONTO ECONOMICO">> >>, "HeaderSubtitle")>>
        \o (IF company_info # <<>>
            THEN <<Paragraph(Take(company_info, 2), "CompanyInfo")>> ELSE <<>>)
        \o DateInfo(Take(lines, 15))
        \o <<Spacer>>

add_header_section(lines) == HeaderSection(lines, CompanyInfo(Take(lines, 10), <<>>))

NoSections == [attivo |-> <<>>, passivo |-> <<>>, conto_economico |-> <<>>, note |-> <<>>]

\* lines 689-713, one turn of the loop on the stripped line: the section
\* the line opens, or "" when it opens none
SectionOpened(line) ==
    IF Contains(upper(line), HdrAttivo) THEN "attivo"
    ELSE IF Contains(upper(line), HdrPassivo) THEN "passivo"
    ELSE IF Contains(upper(line), HdrConto) THEN "conto_economico"
    ELSE IF Contains(upper(line), HdrNota) THEN "note"
    ELSE ""

\* the line is kept in the section current_section ("" is None)
Kept(line, current_section) ==
    IF current_section = "" THEN FALSE
    ELSE IF current_section # "note"
    THEN ContainsAny(line, {<<EURO>>, <<")">>, <<"-">>})
    ELSE TRUE

RECURSIVE ParseLines(_, _, _)
ParseLines(lines, current_section, sections) ==
    IF lines = <<>> THEN sections
    ELSE IF strip(Head(lines), Whitespace) = <<>>
    THEN ParseLines(Tail(lines), current_section, sections)
    ELSE IF SectionOpened(strip(Head(lines), Whitespace)) # ""
    THEN ParseLines(Tail(lines), SectionOpened(strip(Head(lines), Whitespace)), sections)
    ELSE IF Kept(strip(Head(lines), Whitespace), current_section)
    THEN ParseLines(Tail(lines), current_section,
                    [sections EXCEPT ![current_section] =
                         Append(@, strip(Head(lines), Whitespace))])
    ELSE ParseLines(Tail(lines), current_section, sections)

\* lines 677-715
parse_financial_data(lines) == ParseLines(lines, "", NoSections)

\* lines 729-739: the row of a line that has a euro sign, from its parts
TableRow(parts) ==
    <<strip(SeqFilter(strip(parts[1], Whitespace),
                      {parts[1][i] : i \in 1 .. Len(parts[1])} \ {"*"}), Whitespace),
      <<EURO, " ">> \o strip(parts[2], Whitespace)>>

RECURSIVE TableRows(_)
TableRows(data) ==
    IF data = <<>> THEN <<>>
    ELSE (IF Contains(Head(data), <<EURO>>)
          THEN <<TableRow(split(Head(data), EURO))>> ELSE <<>>)
             \o TableRows(Tail(data))

\* lines 722-770, given the rows made of the first 30 lines of the section
FinancialTable(section_title, rows) ==
    <<Paragraph(<<section_title>>, "SectionMain")>>
        \o (IF rows # <<>>
            THEN <<Table(<< <<(<<"Voce">>), <<"Importo (", EURO, ")">> >> >> \o rows), Spacer>>
            ELSE <<>>)

\* lines 717-770
create_financial_table(data, section_title) ==
    IF data = <<>> THEN <<>>
    ELSE FinancialTable(section_title, TableRows(Take(data, 30)))

\* lines 789-791: the line is taken for the header of a subsection
IsSubsection(line) ==
    /\ Len(line) < 100
    /\ line[1] # "-"
    /\ ~ContainsAny(line, {<<EURO>>, <<":">>, <<BULLET>>})
    /\ isupper(line[1])

\* lines 796-798 and 809-811: the content lines long enough to be shown
RECURSIVE NoteTexts(_)
NoteTexts(subsection_content) ==
    IF subsection_content = <<>> THEN <<>>
    ELSE (IF Len(strip(Head(subsection_content), Whitespace)) > 10
          THEN <<Paragraph(<<strip(Head(subsection_content), Whitespace)>>, "NoteText")>>
          ELSE <<>>)
             \o NoteTexts(Tail(subsection_content))

\* lines 795-798 and 808-811: a subsection is shown if it has a header and
\* content (<<>> is None or an empty list)
Subsection(current_subsection, subsection_content) ==
    IF current_subsection # <<>> /\ subsection_content # <<>>
    THEN <<Paragraph(<<current_subsection>>, "NoteSection")>> \o NoteTexts(subsection_content)
    ELSE <<>>

\* lines 783-811: the loop over the notes, and the final subsection
RECURSIVE NoteLines(_, _, _)
NoteLines(notes_data, current_subsection, subsection_content) ==
    IF notes_data = <<>> THEN Subsection(current_subsection, subsection_content)
    ELSE IF strip(Head(notes_data), Whitespace) = <<>>
    THEN NoteLines(Tail(notes_data), current_subsection, subsection_content)
    ELSE IF ~IsSubsection(strip(Head(notes_data), Whitespace))
    THEN NoteLines(Tail(notes_data), current_subsection,
                   Append(subsection_content, strip(Head(notes_data), Whitespace)))
    ELSE IF current_subsection # <<>> /\ subsection_content # <<>>
    THEN Subsection(current_subsection, subsection_content) \o <<Spacer>>
             \o NoteLines(Tail(notes_data), strip(Head(notes_data), Whitespace), <<>>)
    ELSE NoteLines(Tail(notes_data), strip(Head(notes_data), Whitespace), subsection_content)

\* lines 772-811
add_notes_section(notes_data) ==
    IF notes_data = <<>> THEN <<>>
    ELSE <<PageBreak, Paragraph(<<HdrNota>>, "SectionMain")>> \o NoteLines(notes_data, <<>>, <<>>)

\* lines 813-823
add_footer ==
    <<Spacer,
      Paragraph(<< <<"Il presente bilancio ... (OIC).">> >>, "Footer"),
      Paragraph(<< <<"Documento generato automaticamente il ... - Per approvazione.">> >>,
                "Footer")>>

\* lines 826-851: the story of the structured build
Story(lines, financial_data) ==
    add_header_section(lines)
        \o create_financial_table(financial_data.attivo, HdrAttivo)
        \o create_financial_table(financial_data.passivo, HdrPassivo)
        \o <<PageBreak>>
        \o create_financial_table(financial_data.conto_economico, HdrConto)
        \o add_notes_section(financial_data.note)
        \o add_footer

structured_story(text_content) ==
    Story(split(text_content, "\n"), parse_financial_data(split(text_content, "\n")))

----------------------------------------------------------------------------
(* Sessions, requests and folders *)

NoName == <<>>        \* None where a file name is expected

EmptySession == [session_id |-> None, csrf_token |-> None, output_file |-> NoName]

\* f"{session_id}_bilancio.pdf" and f"{session_id}_bilancio.txt"
OutputName(session_id, ext) == <<session_id, "bilancio", ext>>

\* UPLOAD_FOLDER / f"{session_id}_{filename}"
UploadPath(session_id, filename) == <<session_id, filename>>

\* Path(filepath).suffix of an upload path: from the last dot of the name on
suffix(path) ==
    LET name == path[2]
    IN  IF Positions(name, ".") = {} THEN <<>>
        ELSE SubSeq(name, Max(Positions(name, ".")), Len(name))

\* a worker without a request.  Some fields only record what happened and
\* are not read by the code: rid (the number of the request), sess (the
\* client), csrf_token (the csrf_token field of the form), csrf_sent (the
\* form has that field), csrf_held (the session had a token), csrf_equal
\* (the two are equal), offending (the form breaks an upload limit), calls
\* and replies (the LLM calls so far)
Idle ==
    [pc |-> "idle", rid |-> 0, sess |-> 0, session |-> EmptySession,
     csrf_token |-> None, csrf_sent |-> FALSE, csrf_held |-> FALSE, csrf_equal |-> FALSE,
     offending |-> FALSE, files |-> <<>>, i |-> 0, session_id |-> None, saved_files |-> <<>>,
     doc_summary |-> JNull, extracted_data |-> JNull, validated_data |-> JNull,
     balance_sheet_text |-> <<>>, calls |-> <<>>, replies |-> <<>>]

\* no file: what a response that sends nothing carries
NoFile == [text |-> <<>>, writer |-> 0, sess |-> 0]

NoResponse ==
    [kind |-> "none", sess |-> 0, rid |-> 0, status |-> 0, error |-> "",
     exc |-> "", cleaned |-> FALSE, filename |-> NoName, sent |-> NoFile,
     csrf_token |-> None, csrf_sent |-> FALSE, csrf_held |-> FALSE, csrf_equal |-> FALSE,
     offending |-> FALSE, saved_files |-> <<>>, calls |-> <<>>, replies |-> <<>>]

Init ==
    /\ cookie = [s \in Sessions |-> EmptySession]
    /\ req = [r \in Workers |-> Idle]
    /\ uploadFolder = <<>>
    /\ outputFolder = <<>>
    /\ api_key \in BOOLEAN
    /\ rand = [s \in Sessions |-> 0]
    /\ nreq = [s \in Sessions |-> 0]
    /\ resp = NoResponse

\* the paths of a folder
Listing(folder) == DOMAIN folder

\* write (or overwrite) one file
WriteFile(folder, path, file) == (path :> file) @@ folder

\* os.remove of every path of the set
RemoveFiles(folder, paths) == [p \in (DOMAIN folder) \ paths |-> folder[p]]

----------------------------------------------------------------------------
(* CSRF token, src/app.py:105-114 *)

\* the session after generate_csrf_token(), given the next value of secrets
generate_csrf_token(session, fresh) ==
    IF session.csrf_token = None
    THEN [session EXCEPT !.csrf_token = fresh]
    ELSE session

validate_csrf_token_any(session, token) == TRUE

validate_csrf_token(session, token) == token = session.csrf_token

----------------------------------------------------------------------------
(* index, src/app.py:117-125 *)

index(s) ==
    LET withId == IF cookie[s].session_id = None
                  THEN [cookie[s] EXCEPT !.session_id = Numbered(s, rand[s] + 1)]
                  ELSE cookie[s]
        idUsed == IF cookie[s].session_id = None THEN 1 ELSE 0
        after  == generate_csrf_token(withId, Numbered(s, rand[s] + idUsed + 1))
    IN  /\ cookie' = [cookie EXCEPT ![s] = after]
        /\ rand' = [rand EXCEPT ![s] =
                       @ + idUsed + (IF withId.csrf_token = None THEN 1 ELSE 0)]
        /\ resp' = NoResponse
        /\ UNCHANGED <<req, uploadFolder, outputFolder, api_key, nreq>>

----------------------------------------------------------------------------
(* upload, src/app.py:128-310 *)

\* return render_template(...), status: the response to request q leaves
\* worker r, and Flask stores the session in the cookie if q modified it
Answer(r, q, status, error, exc, modified, cleaned) ==
    /\ resp' = [NoResponse EXCEPT
                   !.kind = "upload", !.sess = q.sess, !.rid = q.rid,
                   !.status = status, !.error = error, !.exc = exc,
                   !.cleaned = cleaned, !.csrf_token = q.csrf_token,
                   !.csrf_sent = q.csrf_sent, !.csrf_held = q.csrf_held,
                   !.csrf_equal = q.csrf_equal,
                   !.offending = q.offending, !.saved_files = q.saved_files,
                   !.calls = q.calls, !.replies = q.replies]
    /\ cookie' = IF modified THEN [cookie EXCEPT ![q.sess] = q.session] ELSE cookie
    /\ req' = [req EXCEPT ![r] = Idle]

\* the except block, lines 285-310: the message shown for an exception
ErrorMessage(exc) ==
    IF exc = "API key missing"
    THEN "API configuration error. Please contact the administrator."
    ELSE IF exc = "Maximum 5 files allowed"
    THEN "Too many files"
    ELSE "Error processing files"

Respond(r, q, status, error, modified, cleaned) ==
    Answer(r, q, status, error, "", modified, cleaned)

Except(r, q, exc) == Answer(r, q, 500, ErrorMessage(exc), exc, TRUE, FALSE)

\* a name that ends in ".pdf", in any case
IsPdfName(name) ==
    /\ Len(name) >= 4
    /\ lower(SubSeq(name, Len(name) - 3, Len(name))) = <<".", "p", "d", "f">>

\* a form that breaks one of the upload limits
Offending(files) ==
    \/ Len(files) > 5
    \/ \E i \in 1 .. Len(files) :
           ~IsPdfName(files[i].filename) \/ files[i].size > 10 * 1024 * 1024

\* lines 136-174: the request arrives from client s with a form; the
\* checks made before the first file is looked at
upload_begin(r, s, form) ==
    LET session == cookie[s]
        arrived == [Idle EXCEPT !.rid = Numbered(s, nreq[s] + 1), !.sess = s, !.session = session,
                                !.csrf_token = form.csrf_token,
                                !.csrf_sent = (form.csrf_token # None),
                                !.csrf_held = (session.csrf_token # None),
                                !.csrf_equal = (form.csrf_token = session.csrf_token),
                                !.offending = Offending(form.files)]
        session_id == IF session.session_id # None THEN session.session_id
                      ELSE Numbered(s, rand[s] + 1)
    IN  /\ req[r].pc = "idle"
        /\ \A q \in Workers : q < r => req[q].pc # "idle"
        /\ Total(nreq) < MaxUploads
        /\ nreq' = [nreq EXCEPT ![s] = @ + 1]
        /\ UNCHANGED <<uploadFolder, outputFolder, api_key>>
        /\ IF ~validate_csrf_token(session, form.csrf_token)
           THEN Respond(r, arrived, 403, "Invalid security token", FALSE, FALSE)
                /\ UNCHANGED rand
           ELSE IF form.files = <<>>
           THEN Respond(r, arrived, 400, "No files uploaded", FALSE, FALSE)
                /\ UNCHANGED rand
           ELSE IF form.files[1].filename = <<>>
           THEN Respond(r, arrived, 400, "No files selected", FALSE, FALSE)
                /\ UNCHANGED rand
           ELSE IF Len(form.files) > MAX_FILES
           THEN Respond(r, arrived, 400, "Too many files", FALSE, FALSE)
                /\ UNCHANGED rand
           ELSE /\ req' = [req EXCEPT ![r] =
                      [arrived EXCEPT !.pc = "files", !.files = form.files, !.i = 1,
                                      !.session_id = session_id,
                                      !.session.session_id = session_id]]
                /\ rand' = IF session.session_id # None THEN rand
                           ELSE [rand EXCEPT ![s] = @ + 1]
                /\ UNCHANGED cookie
                /\ resp' = NoResponse

\* lines 176-214, one turn of the loop: check and save file i.  The save
\* may fail, which the code turns into a ValueError.
upload_file(r) ==
    LET q        == req[r]
        file     == q.files[q.i]
        filename == secure_filename(file.filename)
        filepath == UploadPath(q.session_id, filename)
        saved    == [size |-> file.size, name |-> file.filename, writer |-> q.rid]
    IN  /\ q.pc = "files"
        /\ UNCHANGED <<outputFolder, api_key, rand, nreq>>
        /\ IF ~allowed_file(file.filename)
           THEN Respond(r, q, 400, "Invalid file type", TRUE, FALSE)
                /\ UNCHANGED uploadFolder
           ELSE IF validate_file_size(file) > MAX_FILE_SIZE
           THEN Respond(r, q, 400, "File too large", TRUE, FALSE)
                /\ UNCHANGED uploadFolder
           ELSE \/ /\ uploadFolder' = WriteFile(uploadFolder, filepath, saved)
                   /\ req' = [req EXCEPT ![r].saved_files = Append(@, filepath),
                                         ![r].i = @ + 1,
                                         ![r].pc = IF q.i = Len(q.files)
                                                   THEN "process" ELSE "files"]
                   /\ UNCHANGED cookie
                   /\ resp' = NoResponse
                \/ /\ Except(r, q, "Could not save file")
                   /\ UNCHANGED uploadFolder

\* src/secondary.py:87-118, _load_documents: the first path that is
\* missing or is no PDF raises
LoadError(saved_files) ==
    LET missing(i) == saved_files[i] \notin Listing(uploadFolder)
        notPdf(i)  == lower(suffix(saved_files[i])) # <<".", "p", "d", "f">>
        bad        == {i \in 1 .. Len(saved_files) : missing(i) \/ notPdf(i)}
    IN  IF bad = {} THEN ""
        ELSE IF missing(Min(bad)) THEN "FileNotFoundError"
        ELSE "ValueError"

upload_process_without_key(r) ==
    LET q == req[r]
    IN  /\ q.pc = "process"
        /\ UNCHANGED <<uploadFolder, outputFolder, api_key, rand, nreq>>
        /\ IF Len(q.saved_files) > 5 THEN Except(r, q, "Maximum 5 files allowed")
           ELSE IF LoadError(q.saved_files) # "" THEN Except(r, q, LoadError(q.saved_files))
           ELSE /\ req' = [req EXCEPT ![r].pc = "analysis"]
                /\ UNCHANGED cookie
                /\ resp' = NoResponse

\* lines 227-232 and src/secondary.py:482-490: the API key check, then
\* generate_balance_sheet up to and including _load_documents
upload_process(r) ==
    LET q == req[r]
    IN  /\ q.pc = "process"
        /\ UNCHANGED <<uploadFolder, outputFolder, api_key, rand, nreq>>
        /\ IF ~api_key THEN Except(r, q, "API key missing")
           ELSE IF Len(q.saved_files) > 5 THEN Except(r, q, "Maximum 5 files allowed")
           ELSE IF LoadError(q.saved_files) # "" THEN Except(r, q, LoadError(q.saved_files))
           ELSE /\ req' = [req EXCEPT ![r].pc = "analysis"]
                /\ UNCHANGED cookie
                /\ resp' = NoResponse

\* one stage of generate_balance_sheet, src/secondary.py:492-504: the
\* call with its prompt, the reply, and what the stage function makes of it
Called(q, stage, prompt, reply) ==
    [q EXCEPT !.calls = Append(@, [stage |-> stage, prompt |-> prompt]),
              !.replies = Append(@, reply)]

\* the stage raised: upload's except block answers; else its value is kept
\* in the variable named and the next stage follows
StageStep(r, q, outcome, next, variable) ==
    /\ UNCHANGED <<uploadFolder, outputFolder, api_key, rand, nreq>>
    /\ IF outcome.raised THEN Except(r, q, outcome.exc)
       ELSE /\ req' = [req EXCEPT ![r] = [q EXCEPT !.pc = next, ![variable] = outcome.value]]
            /\ UNCHANGED cookie
            /\ resp' = NoResponse

analyze_documents_retry(r, reply) ==
    /\ req[r].pc = "analysis"
    /\ StageStep(r, Called(req[r], "analysis", AnalysisPrompt, reply),
                 Return(_analyze_documents(reply).value),
                 IF reply.raised THEN "analysis" ELSE "extraction", "doc_summary")

analyze_documents(r, reply) ==
    /\ req[r].pc = "analysis"
    /\ StageStep(r, Called(req[r], "analysis", AnalysisPrompt, reply),
                 _analyze_documents(reply), "extraction", "doc_summary")

extract_financial_data(r, reply) ==
    /\ req[r].pc = "extraction"
    /\ StageStep(r, Called(req[r], "extraction",
                           ExtractionPrompt(req[r].doc_summary), reply),
                 _extract_financial_data(reply), "validation", "extracted_data")

validate_and_calculate(r, reply) ==
    /\ req[r].pc = "validation"
    /\ StageStep(r, Called(req[r], "validation",
                           ValidationPrompt(req[r].extracted_data), reply),
                 _validate_and_calculate(reply, req[r].extracted_data),
                 "formatting", "validated_data")

\* src/secondary.py:502-504: the sheet of stage 4, cleaned
Cleaned(outcome) ==
    IF outcome.raised THEN outcome ELSE Return(_cleanup_formatting(outcome.value))

format_balance_sheet_unvalidated(r, reply) ==
    /\ req[r].pc = "formatting"
    /\ StageStep(r, Called(req[r], "formatting",
                           FormattingPrompt(req[r].extracted_data), reply),
                 Cleaned(_format_balance_sheet(reply)), "pdf", "balance_sheet_text")

format_balance_sheet(r, reply) ==
    /\ req[r].pc = "formatting"
    /\ StageStep(r, Called(req[r], "formatting",
                           FormattingPrompt(req[r].validated_data), reply),
                 Cleaned(_format_balance_sheet(reply)), "pdf", "balance_sheet_text")

\* lines 237-245: create_pdf writes the PDF with the story of the
\* structured build, or raises when neither the structured layout nor the
\* fallback can be built; nothing is written then
create_pdf_default_name(r) ==
    LET q == req[r]
    IN  /\ q.pc = "pdf"
        /\ UNCHANGED <<uploadFolder, api_key, rand, nreq>>
        /\ \/ /\ outputFolder' = WriteFile(outputFolder, OutputName(None, "pdf"),
                     [text |-> q.balance_sheet_text, writer |-> q.rid, sess |-> q.sess,
                      story |-> structured_story(q.balance_sheet_text)])
              /\ req' = [req EXCEPT ![r].pc = "txt"]
              /\ UNCHANGED cookie
              /\ resp' = NoResponse
           \/ /\ Except(r, q, "LayoutError")
              /\ UNCHANGED outputFolder

create_pdf(r) ==
    LET q == req[r]
        output_filename == OutputName(q.session_id, "pdf")
    IN  /\ q.pc = "pdf"
        /\ UNCHANGED <<uploadFolder, api_key, rand, nreq>>
        /\ \/ /\ outputFolder' = WriteFile(outputFolder, output_filename,
                     [text |-> q.balance_sheet_text, writer |-> q.rid, sess |-> q.sess,
                      story |-> structured_story(q.balance_sheet_text)])
              /\ req' = [req EXCEPT ![r].pc = "txt"]
              /\ UNCHANGED cookie
              /\ resp' = NoResponse
           \/ /\ Except(r, q, "LayoutError")
              /\ UNCHANGED outputFolder

\* lines 247-253: the text backup
write_text(r) ==
    LET q == req[r]
        text_output_path == OutputName(q.session_id, "txt")
    IN  /\ q.pc = "txt"
        /\ outputFolder' = WriteFile(outputFolder, text_output_path,
               [text |-> q.balance_sheet_text, writer |-> q.rid, sess |-> q.sess])
        /\ req' = [req EXCEPT ![r].pc = "finish"]
        /\ resp' = NoResponse
        /\ UNCHANGED <<cookie, uploadFolder, api_key, rand, nreq>>

Finished_same_token(q) ==
    [q EXCEPT !.session.output_file = OutputName(q.session_id, "pdf")]

\* lines 262-283: store the output name, renew the CSRF token, remove the
\* uploads and answer.  os.remove may raise at file number fail, which ends
\* the clean-up there; fail = Len(saved_files) + 1 is a clean-up without error.
Finished(q) ==
    [q EXCEPT !.session = generate_csrf_token(
                  [q.session EXCEPT !.output_file = OutputName(q.session_id, "pdf"),
                                    !.csrf_token = None],
                  Numbered(q.sess, rand[q.sess] + 1))]

upload_finish_keep(r, fail) ==
    LET q == req[r]
    IN  /\ q.pc = "finish"
        /\ fail = Len(q.saved_files) + 1
        /\ rand' = [rand EXCEPT ![q.sess] = @ + 1]
        /\ Respond(r, Finished(q), 200, "", TRUE, TRUE)
        /\ UNCHANGED <<uploadFolder, outputFolder, api_key, nreq>>

upload_finish(r, fail) ==
    LET q == req[r]
        removed == {q.saved_files[i] : i \in 1 .. fail - 1}
    IN  /\ q.pc = "finish"
        /\ fail \in 1 .. Len(q.saved_files) + 1
        /\ fail <= Len(q.saved_files) =>
               q.saved_files[fail] \in Listing(uploadFolder) \ removed
        /\ uploadFolder' = RemoveFiles(uploadFolder, removed)
        /\ rand' = [rand EXCEPT ![q.sess] = @ + 1]
        /\ Respond(r, Finished(q), 200, "", TRUE, fail = Len(q.saved_files) + 1)
        /\ UNCHANGED <<outputFolder, api_key, nreq>>

----------------------------------------------------------------------------
(* download, src/app.py:313-356 *)

\* what download(filename) answers to a client holding session
DownloadResponse_any(session, filename) ==
    IF session.session_id = None
    THEN [status |-> 403, sent |-> NoFile]
    ELSE IF filename \notin Listing(outputFolder)
    THEN [status |-> 404, sent |-> NoFile]
    ELSE [status |-> 200, sent |-> outputFolder[filename]]

DownloadResponse(session, filename) ==
    IF session.session_id = None \/ filename # session.output_file
    THEN [status |-> 403, sent |-> NoFile]
    ELSE IF filename \notin Listing(outputFolder)
    THEN [status |-> 404, sent |-> NoFile]
    ELSE [status |-> 200, sent |-> outputFolder[filename]]

download_purge(s, filename) ==
    LET answer == DownloadResponse(cookie[s], filename)
    IN  /\ resp' = [NoResponse EXCEPT !.kind = "download", !.sess = s,
                                      !.status = answer.status,
                                      !.filename = filename, !.sent = answer.sent]
        /\ outputFolder' = IF answer.status = 200
                           THEN RemoveFiles(outputFolder, {filename})
                           ELSE outputFolder
        /\ UNCHANGED <<cookie, req, uploadFolder, api_key, rand, nreq>>

download(s, filename) ==
    LET answer == DownloadResponse(cookie[s], filename)
    IN  /\ resp' = [NoResponse EXCEPT !.kind = "download", !.sess = s,
                                      !.status = answer.status,
                                      !.filename = filename, !.sent = answer.sent]
        /\ UNCHANGED <<cookie, req, uploadFolder, outputFolder, api_key, rand, nreq>>

----------------------------------------------------------------------------
(* The environment, src/app.py:13-27 *)

\* the server is started again with or without ANTHROPIC_API_KEY; with
\* FLASK_SECRET_KEY set, the sessions of the clients stay valid
restart(key) ==
    /\ api_key # key
    /\ api_key' = key
    /\ resp' = NoResponse
    /\ UNCHANGED <<cookie, req, uploadFolder, outputFolder, rand, nreq>>

----------------------------------------------------------------------------
(* What the clients and the LLM may send *)

NonAscii == "u0444"   \* one atom for a letter outside ASCII (Cyrillic ef)

NamePdf    == <<"a", ".", "p", "d", "f">>
NameUpper  == <<"a", ".", "P", "D", "F">>
NameSlash  == <<"/", "a", ".", "p", "d", "f">>
NameTxt    == <<"a", ".", "t", "x", "t">>
NameCyr    == <<NonAscii, ".", "p", "d", "f">>

File(filename, size) == [filename |-> filename, size |-> size]

GoodFile == File(NamePdf, 1)

FileKinds ==
    {GoodFile, File(NamePdf, MAX_FILE_SIZE), File(NamePdf, MAX_FILE_SIZE + 1),
     File(NameUpper, 1), File(NameSlash, 1), File(NameTxt, 1), File(NameCyr, 1),
     File(<<>>, 0)}

Repeat(x, n) == [i \in 1 .. n |-> x]

\* the file lists of a form: no file at all, one file of any kind, a good
\* file followed by a good one, a bad one or one of a clashing name, and
\* lists of MAX_FILES and of MAX_FILES + 1 good files
FileLists ==
    {<<>>, Repeat(GoodFile, MAX_FILES), Repeat(GoodFile, MAX_FILES + 1)}
        \cup {<<f>> : f \in FileKinds}
        \cup {<<GoodFile, f>> : f \in {GoodFile, File(NameTxt, 1), File(NameSlash, 1)}}

Forged == -1          \* a token that the session was never given

\* the values of secrets that client s has been given so far: its
\* session_id and the tokens of its forms, old ones included
Drawn(s) == {Numbered(s, k) : k \in 1 .. rand[s]}

\* the forms client s can post: csrf_token absent, forged, the token that
\* its session holds, or a value it was given earlier
Forms(s) ==
    [csrf_token : {None, Forged, cookie[s].csrf_token} \cup Drawn(s), files : FileLists]

\* the form of a well-behaved client s: its own token and one PDF
HonestForms(s) == {[csrf_token |-> cookie[s].csrf_token, files |-> <<GoodFile>>]}

Text(name) ==
    CASE name = "object"   -> <<"{", QUOTE, "a", QUOTE, ":", " ", "1", "}">>
      [] name = "prose"    -> <<"x">>
      [] name = "list"     -> <<"[", "1", "]">>
      [] name = "fenced"   -> <<FENCE, "json", "\n", "{", QUOTE, "a", QUOTE, ":",
                                "0", "}", "\n", FENCE>>
      [] name = "wrapped"  -> <<"x", " ", "{", QUOTE, "a", QUOTE, ":", "1", "}", " ", "x">>
      \* x {"a":"\"}"} }: a brace and an escaped quote inside a string
      [] name = "quoted"   -> <<"x", " ", "{", QUOTE, "a", QUOTE, ":", QUOTE, BSL, QUOTE,
                                "}", QUOTE, "}", " ", "}">>
      [] name = "comma"    -> <<"{", QUOTE, "a", QUOTE, ":", "1", ",", "}">>
      [] name = "corrected" ->
             <<"{", QUOTE, "is_balanced", QUOTE, ":", "true", ",",
               QUOTE, "corrected_data", QUOTE, ":", "{", QUOTE, "b", QUOTE, ":", "1", "}", "}">>
      [] name = "unbalanced" ->
             <<"{", QUOTE, "balance_difference", QUOTE, ":", "1", ",",
               QUOTE, "corrections_made", QUOTE, ":", "[", "1", "]", ",",
               QUOTE, "corrected_data", QUOTE, ":", "{", "}", "}">>
      [] name = "difference as text" ->
             <<"{", QUOTE, "balance_difference", QUOTE, ":", QUOTE, "x", QUOTE, ",",
               QUOTE, "corrected_data", QUOTE, ":", "{", "}", "}">>
      [] name = "difference null" ->
             <<"{", QUOTE, "balance_difference", QUOTE, ":", "null", ",",
               QUOTE, "corrected_data", QUOTE, ":", "{", "}", "}">>
      [] name = "corrections as number" ->
             <<"{", QUOTE, "is_balanced", QUOTE, ":", "true", ",",
               QUOTE, "corrections_made", QUOTE, ":", "1", ",",
               QUOTE, "corrected_data", QUOTE, ":", "{", "}", "}">>
      [] name = "sheet"    -> <<"x", "\n", "a">>
      \* Rossi SRL / CONTO ECONOMICO / A) Ricavi / Vendite (euro) 1
      [] name = "conto" ->
             <<"R", "o", "s", "s", "i", " ", "S", "R", "L", "\n", "C", "O",
               "N", "T", "O", " ", "E", "C", "O", "N", "O", "M", "I", "C",
               "O", "\n", "A", ")", " ", "R", "i", "c", "a", "v", "i", "\n",
               "V", "e", "n", "d", "i", "t", "e", " ", EURO, " ", "1">>
      \* NOTA INTEGRATIVA / Criteri / al costo storico / costo
      [] name = "nota" ->
             <<"N", "O", "T", "A", " ", "I", "N", "T", "E", "G", "R", "A",
               "T", "I", "V", "A", "\n", "C", "r", "i", "t", "e", "r", "i",
               "\n", "a", "l", " ", "c", "o", "s", "t", "o", " ", "s", "t",
               "o", "r", "i", "c", "o", "\n", "c", "o", "s", "t", "o">>
      [] name = "markdown" -> <<FENCE, "\n", "#", "x", "\n", "\n", "\n", "*", "a", "*", "\n", FENCE>>

\* replies to the stages 1-3 (an object, a text without JSON, an error of
\* the API) and to stage 4, for the whole application
Replies == {Reply(Text("object")), Reply(Text("prose")), APIError}
Sheets  == {Reply(Text("sheet")), APIError}

\* the same for the prompt chain looked at on its own
ChainReplies ==
    {Reply(Text(n)) : n \in {"object", "prose", "list", "fenced", "wrapped", "quoted", "comma",
                             "corrected", "unbalanced", "difference as text",
                             "difference null", "corrections as number"}}
        \cup {APIError}
ChainSheets ==
    {Reply(Text("sheet")), Reply(Text("markdown")), Reply(Text("conto")),
     Reply(Text("nota")), APIError}

\* replies for requests served at the same time: an object or an error of
\* the API for the stages 1-3, and two sheets that differ for stage 4
ConcurrentReplies == {Reply(Text("object")), APIError}
ConcurrentSheets == {Reply(Text("sheet")), Reply(Text("nota")), APIError}

\* the names a client may ask download for: the output a session points
\* to, and the text backup next to it
DownloadNames ==
    ({cookie[s].output_file : s \in Sessions} \ {NoName})
        \cup {OutputName(cookie[s].session_id, "txt") : s \in Sessions}

----------------------------------------------------------------------------
(* The application and one client, one request after the other: any form, *)
(* any failure                                                            *)

Quiet == \A r \in Workers : req[r].pc = "idle"

Restart       == \E key \in BOOLEAN : Quiet /\ restart(key)
Index         == Quiet /\ index(1)
UploadBegin   == \E form \in Forms(1) : Quiet /\ upload_begin(1, 1, form)
UploadFile    == \E r \in Workers : upload_file(r)
UploadProcess == \E r \in Workers : upload_process(r)
Analyze       == \E r \in Workers, reply \in Replies : analyze_documents(r, reply)
Extract       == \E r \in Workers, reply \in Replies : extract_financial_data(r, reply)
Validate      == \E r \in Workers, reply \in Replies : validate_and_calculate(r, reply)
Format        == \E r \in Workers, reply \in Sheets : format_balance_sheet(r, reply)
CreatePdf     == \E r \in Workers : create_pdf(r)
WriteText     == \E r \in Workers : write_text(r)
UploadFinish  == \E r \in Workers, fail \in 1 .. MAX_FILES + 1 : upload_finish(r, fail)
Download      == \E filename \in DownloadNames : Quiet /\ download(1, filename)

Next ==
    \/ Restart
    \/ Index
    \/ UploadBegin
    \/ UploadFile
    \/ UploadProcess
    \/ Analyze
    \/ Extract
    \/ Validate
    \/ Format
    \/ CreatePdf
    \/ WriteText
    \/ UploadFinish
    \/ Download

Spec == Init /\ [][Next]_vars

----------------------------------------------------------------------------
(* The application and several clients, one request after the other:     *)
(* clients that post the token of their session and one PDF              *)

ClientsIndex    == \E s \in Sessions : Quiet /\ index(s)
ClientsBegin    ==
    \E s \in Sessions : \E form \in HonestForms(s) : Quiet /\ upload_begin(1, s, form)
ClientsDownload ==
    \E s \in Sessions, filename \in DownloadNames : Quiet /\ download(s, filename)

NextClients ==
    \/ ClientsIndex
    \/ ClientsBegin
    \/ UploadFile
    \/ UploadProcess
    \/ Analyze
    \/ Extract
    \/ Validate
    \/ Format
    \/ CreatePdf
    \/ WriteText
    \/ UploadFinish
    \/ ClientsDownload

SpecClients == Init /\ [][NextClients]_vars

----------------------------------------------------------------------------
(* The application serving requests of one client at the same time       *)
(* (Flask's threaded server)                                              *)

ConcurrentIndex    == index(1)
ConcurrentBegin    ==
    \E r \in Workers : \E form \in HonestForms(1) : upload_begin(r, 1, form)
ConcurrentDownload == \E filename \in DownloadNames : download(1, filename)
ConcurrentAnalyze  ==
    \E r \in Workers, reply \in ConcurrentReplies : analyze_documents(r, reply)
ConcurrentExtract  ==
    \E r \in Workers, reply \in ConcurrentReplies : extract_financial_data(r, reply)
ConcurrentValidate ==
    \E r \in Workers, reply \in ConcurrentReplies : validate_and_calculate(r, reply)
ConcurrentFormat   ==
    \E r \in Workers, reply \in ConcurrentSheets : format_balance_sheet(r, reply)

NextConcurrent ==
    \/ ConcurrentIndex
    \/ ConcurrentBegin
    \/ UploadFile
    \/ UploadProcess
    \/ ConcurrentAnalyze
    \/ ConcurrentExtract
    \/ ConcurrentValidate
    \/ ConcurrentFormat
    \/ CreatePdf
    \/ WriteText
    \/ UploadFinish
    \/ ConcurrentDownload

SpecConcurrent == Init /\ [][NextConcurrent]_vars

----------------------------------------------------------------------------
(* The prompt chain: one well-behaved client, every kind of reply *)

ChainIndex    == index(1)
ChainBegin    == \E form \in HonestForms(1) : Total(nreq) = 0 /\ upload_begin(1, 1, form)
ChainAnalyze  == \E reply \in ChainReplies : analyze_documents(1, reply)
ChainExtract  == \E reply \in ChainReplies : extract_financial_data(1, reply)
ChainValidate == \E reply \in ChainReplies : validate_and_calculate(1, reply)
ChainFormat   == \E reply \in ChainSheets : format_balance_sheet(1, reply)

NextChain ==
    \/ ChainIndex
    \/ ChainBegin
    \/ UploadFile
    \/ UploadProcess
    \/ ChainAnalyze
    \/ ChainExtract
    \/ ChainValidate
    \/ ChainFormat
    \/ CreatePdf
    \/ WriteText
    \/ UploadFinish

SpecChain == Init /\ [][NextChain]_vars

----------------------------------------------------------------------------
(* Properties *)

StageNames(calls) == [i \in 1 .. Len(calls) |-> calls[i].stage]

IsPrefix(a, b) == Len(a) <= Len(b) /\ \A i \in 1 .. Len(a) : a[i] = b[i]

\* a stage failed on this reply: the API call raised, or stage 2 could not
\* parse the reply
StageFailed(call, reply) ==
    \/ reply.raised
    \/ call.stage = "extraction" /\ ~_extract_json(reply.text).ok

ChainOrder(calls, replies) ==
    /\ IsPrefix(StageNames(calls), Stages)
    /\ Len(replies) = Len(calls)
    /\ \A i \in 1 .. Len(calls) - 1 : ~StageFailed(calls[i], replies[i])

\* the logs of LLM calls: of the requests being served and of the one
\* just answered
Logs ==
    {[calls |-> req[r].calls, replies |-> req[r].replies] : r \in Workers}
        \cup {[calls |-> resp.calls, replies |-> resp.replies]}

\* C1: in every run of generate_balance_sheet the stages called so far are
\* a prefix of (analysis, extraction, validation, formatting), every call
\* has got its reply before the next one is made, and a stage that failed
\* is the last one called: nothing is called again after a failure.
C1_StageOrder == \A log \in Logs : ChainOrder(log.calls, log.replies)

\* a run that called all four stages and ended in success
C1_Witness ==
    /\ resp.kind = "upload"
    /\ resp.status = 200
    /\ StageNames(resp.calls) = Stages

\* what _extract_json makes of each reply
Parsed(replies) == [n \in 1 .. Len(replies) |-> _extract_json(replies[n].text)]

HasCorrected(parsed) ==
    /\ parsed.ok
    /\ parsed.val.k = "dict"
    /\ <<"corrected_data">> \in Keys(parsed.val)

\* the reply of stage 3 reports an unbalanced sheet whose difference is text
DifferenceIsText(parsed) ==
    /\ ~truthy(get(parsed.val, <<"is_balanced">>, JBool(FALSE)))
    /\ get(parsed.val, <<"balance_difference">>, JNum(0)).k = "str"

EmbedsReplies(calls, parsed) ==
    /\ Len(calls) >= 2 =>
           /\ parsed[1].ok
           /\ calls[2].prompt = json_dumps(parsed[1].val, None)
    /\ Len(calls) >= 3 =>
           /\ parsed[2].ok
           /\ calls[3].prompt = json_dumps(parsed[2].val, 2)
    /\ Len(calls) >= 4 =>
           /\ HasCorrected(parsed[3])
           /\ calls[4].prompt =
                  json_dumps(get(parsed[3].val, <<"corrected_data">>, JNull), 2)

\* C2 as stated: the prompt of stage 2 embeds the summary parsed from the
\* reply of stage 1, that of stage 3 the data parsed from the reply of
\* stage 2, and that of stage 4 the data taken from the reply of stage 3.
C2_Original == \A log \in Logs : EmbedsReplies(log.calls, Parsed(log.replies))

\* the data a prompt embeds when the reply before it gives none
Embedded(calls, parsed) ==
    <<IF parsed[1].ok THEN parsed[1].val
      ELSE JDict(<< <<(<<"document_quality">>), JStr(<<"unknown">>)>> >>),
      parsed[2].val,
      IF Len(calls) >= 4 /\ HasCorrected(parsed[3]) /\ ~DifferenceIsText(parsed[3])
      THEN get(parsed[3].val, <<"corrected_data">>, JNull)
      ELSE parsed[2].val>>

EmbedsRepliesOrFallback(calls, parsed) ==
    /\ Len(calls) >= 2 => calls[2].prompt = json_dumps(Embedded(calls, parsed)[1], None)
    /\ Len(calls) >= 3 => parsed[2].ok
    /\ \A n \in 3 .. Len(calls) :
           calls[n].prompt = json_dumps(Embedded(calls, parsed)[n - 1], 2)

\* C2 amended: the prompt of stage 2 embeds the summary parsed from the
\* reply of stage 1, or the default summary when that reply cannot be
\* parsed; the prompt of stage 3 embeds the data parsed from the reply of
\* stage 2; the prompt of stage 4 embeds the corrected_data of the object
\* parsed from the reply of stage 3, or the data parsed from the reply of
\* stage 2 when the reply of stage 3 cannot be parsed, has no corrected_data
\* or reports an unbalanced sheet with a balance_difference that is a string.
C2_EmbedsOrFallsBack ==
    \A log \in Logs : EmbedsRepliesOrFallback(log.calls, Parsed(log.replies))

\* a fourth call whose prompt is the corrected data of the reply of stage 3
CorrectedEmbedded(calls, parsed) ==
    /\ Len(calls) = 4
    /\ HasCorrected(parsed[3])
    /\ calls[4].prompt # calls[3].prompt
    /\ calls[4].prompt = json_dumps(get(parsed[3].val, <<"corrected_data">>, JNull), 2)

\* stage 4 was called with corrected data that differ from the data of stage 2
C2_Witness ==
    \E r \in Workers : CorrectedEmbedded(req[r].calls, Parsed(req[r].replies))

\* the files in the upload folder that request rid wrote
OwnUploads(rid) == {p \in DOMAIN uploadFolder : uploadFolder[p].writer = rid}

\* C3 as stated: when the response of an upload request is returned, every
\* file the request wrote to the upload folder has been deleted.
C3_Original == resp.kind = "upload" => OwnUploads(resp.rid) = {}

\* C3 amended: when an upload request is answered with success and no
\* os.remove raised during its clean-up, every file the request wrote to
\* the upload folder has been deleted; a request that is rejected or fails
\* deletes nothing when it answers, so the files it wrote are left.
C3_CleanAfterSuccess ==
    [][/\ (resp'.kind = "upload" /\ resp'.status = 200 /\ resp'.cleaned)
            => {p \in DOMAIN uploadFolder' : uploadFolder'[p].writer = resp'.rid} = {}
       /\ (resp'.kind = "upload" /\ resp'.status # 200)
            => uploadFolder' = uploadFolder]_vars

\* a success whose clean-up removed what the request had saved
C3_Witness ==
    /\ resp.kind = "upload"
    /\ resp.status = 200
    /\ resp.cleaned
    /\ resp.saved_files # <<>>
    /\ \A i \in 1 .. Len(resp.saved_files) : resp.saved_files[i] \notin DOMAIN uploadFolder

\* C4: an upload request whose csrf_token differs from the one of the
\* session is answered 403, has written no file and called no stage, and
\* leaves session and folders as they were; a request that is being
\* processed has sent the token of its session.
C4_CsrfMismatchRejected ==
    [][/\ (resp'.kind = "upload" /\ ~resp'.csrf_equal)
            => /\ resp'.status = 403
               /\ resp'.saved_files = <<>>
               /\ resp'.calls = <<>>
               /\ UNCHANGED <<cookie, uploadFolder, outputFolder>>
       /\ \A r \in Workers : req'[r].pc # "idle" => req'[r].csrf_equal]_vars

\* a request with a token, sent to a session that holds another one, refused
C4_Witness ==
    /\ resp.kind = "upload"
    /\ resp.csrf_sent
    /\ resp.csrf_held
    /\ ~resp.csrf_equal
    /\ resp.status = 403

\* C5: an upload request gets past the CSRF validation only if its session
\* holds a token and the form carries that token; a request of a session
\* without a token, or a form without csrf_token, does not get past it.
C5_TokenRequired ==
    /\ \A r \in Workers :
           req[r].pc # "idle" =>
               req[r].csrf_held /\ req[r].csrf_sent /\ req[r].csrf_equal
    /\ (resp.kind = "upload" /\ resp.status # 403) =>
           resp.csrf_held /\ resp.csrf_sent /\ resp.csrf_equal

\* C6: download sends a file only to a session that has a session_id and
\* asks for its own output_file; every other request is answered 403 and
\* gets nothing; the file sent was generated by an upload of the session
\* that asks, never by one of another session.
C6_DownloadOwnOnly ==
    resp.kind = "download" =>
        LET session == cookie[resp.sess]
            own     == session.session_id # None /\ resp.filename = session.output_file
        IN  /\ ~own => resp.status = 403
            /\ resp.status # 200 => resp.sent = NoFile
            /\ resp.status = 200 => resp.sent.sess = resp.sess

\* a session asks for the existing output of another session and is refused
C6_Witness ==
    /\ resp.kind = "download"
    /\ resp.status = 403
    /\ resp.filename \in DOMAIN outputFolder
    /\ outputFolder[resp.filename].sess # resp.sess

\* C7: once an upload of a session has returned success, the session has an
\* output_file, keeps one whatever later uploads do, and download of that
\* name is answered with the generated PDF, not with 403 or 404.
C7_DownloadAfterSuccess ==
    [][/\ \A s \in Sessions :
           (\/ cookie[s].output_file # NoName
            \/ resp'.kind = "upload" /\ resp'.status = 200 /\ resp'.sess = s)
           => /\ cookie'[s].output_file # NoName
              /\ cookie'[s].session_id # None
              /\ cookie'[s].output_file \in DOMAIN outputFolder'
              /\ outputFolder'[cookie'[s].output_file].sess = s
       /\ (/\ resp'.kind = "download"
           /\ resp'.filename = cookie'[resp'.sess].output_file)
           => /\ resp'.status = 200
              /\ resp'.sent = outputFolder'[resp'.filename]]_vars

\* the PDF is served although a later upload of the session has failed and
\* left its file behind
C7_Witness ==
    /\ resp.kind = "download"
    /\ resp.status = 200
    /\ \E p \in DOMAIN uploadFolder :
           /\ p[1] = cookie[resp.sess].session_id
           /\ uploadFolder[p].writer > resp.sent.writer

WithinLimits ==
    /\ \A p \in DOMAIN uploadFolder :
           IsPdfName(uploadFolder[p].name) /\ uploadFolder[p].size <= 10 * 1024 * 1024
    /\ \A r \in Workers : Len(req[r].saved_files) <= 5
    /\ Len(resp.saved_files) <= 5

\* C8 as stated: every file written to the upload folder was uploaded under
\* a name ending in .pdf (in any case) and has at most 10 MB, a request
\* writes at most 5 files, and a request with more than 5 files, another
\* kind of name or a larger file is answered 400 and calls no stage.
C8_Original ==
    /\ WithinLimits
    /\ (resp.kind = "upload" /\ resp.offending) =>
           resp.status = 400 /\ resp.calls = <<>>

\* C8 amended: the same, but a request that breaks a limit is answered 400
\* only if it passes the CSRF validation (403 otherwise) and no file listed
\* before the offending one fails to be saved (500 then); in each case no
\* stage is called.
C8_UploadLimits ==
    /\ WithinLimits
    /\ (resp.kind = "upload" /\ resp.offending) =>
           /\ resp.calls = <<>>
           /\ \/ resp.status = 403 /\ ~resp.csrf_equal
              \/ resp.status = 400 /\ resp.csrf_equal
              \/ resp.status = 500 /\ resp.csrf_equal /\ resp.exc = "Could not save file"

\* a file of exactly 10 MB is in the folder, and a request that breaks a
\* limit has just been answered 400
C8_Witness ==
    /\ resp.kind = "upload"
    /\ resp.offending
    /\ resp.status = 400
    /\ \E p \in DOMAIN uploadFolder : uploadFolder[p].size = 10 * 1024 * 1024

\* C9: upload saves every file under a name of its own: the path a file is
\* saved to holds no file yet, so that no saved upload overwrites another.
C9_NoOverwrite ==
    [][\A r \in Workers :
           Len(req'[r].saved_files) > Len(req[r].saved_files)
               => req'[r].saved_files[Len(req'[r].saved_files)] \notin DOMAIN uploadFolder]_vars

\* C10: a download request changes no file of either folder and nothing in
\* the session, and the same request made again gets the same answer.
C10_DownloadFrame ==
    [][resp'.kind = "download" =>
           /\ UNCHANGED <<cookie, uploadFolder, outputFolder, req>>
           /\ LET session == cookie'[resp'.sess]
                  again   ==
                      IF session.session_id = None \/ resp'.filename # session.output_file
                      THEN 403
                      ELSE IF resp'.filename \notin DOMAIN outputFolder' THEN 404
                      ELSE 200
              IN  /\ again = resp'.status
                  /\ again = 200 => outputFolder'[resp'.filename] = resp'.sent]_vars

\* a download that sent the PDF
C10_Witness ==
    /\ resp.kind = "download"
    /\ resp.status = 200
    /\ resp.sent = outputFolder[resp.filename]

\* the lines of a text that are not empty, stripped
TextLines(text) ==
    SeqFilter([i \in 1 .. Len(split(text, "\n")) |-> strip(split(text, "\n")[i], Whitespace)],
              {strip(split(text, "\n")[i], Whitespace) : i \in 1 .. Len(split(text, "\n"))}
                  \ {<<>>})

NoSpaces(line) == SeqFilter(line, {line[i] : i \in 1 .. Len(line)} \ {" "})

\* the flowable shows the line: a paragraph that has it as (one of) its
\* lines, or a table with a row whose two cells together are the line
Carries(flowable, line) ==
    \/ /\ flowable.kind = "Paragraph"
       /\ \E i \in 1 .. Len(flowable.text) : flowable.text[i] = line
    \/ /\ flowable.kind = "Table"
       /\ \E i \in 1 .. Len(flowable.rows) :
              NoSpaces(flowable.rows[i][1] \o flowable.rows[i][2]) = NoSpaces(line)

AllLinesCarried(lines, story) ==
    \A i \in 1 .. Len(lines) : \E k \in 1 .. Len(story) : Carries(story[k], lines[i])

\* C11: every line of the final text that is not empty is carried by a
\* table row or a paragraph of the story that create_pdf's structured build
\* made of the text; no such line is dropped.
C11_EveryLineRendered ==
    \A name \in DOMAIN outputFolder :
        name[3] = "pdf" =>
            AllLinesCarried(TextLines(outputFolder[name].text), outputFolder[name].story)

\* what _extract_json returned is a JSON object, or it raised ValueError
ObjectOrValueError(parsed) == parsed.ok => parsed.val.k = "dict"

AllObjects(replies, parsed) ==
    \A n \in 1 .. Len(replies) : ~replies[n].raised => ObjectOrValueError(parsed[n])

\* C12: whatever the text of a reply, _extract_json returns a dict or
\* raises ValueError; it returns no list, number, string or null.
C12_ObjectOrValueError == \A log \in Logs : AllObjects(log.replies, Parsed(log.replies))

\* C13: a successful upload leaves the session with a token that is freshly
\* drawn: not the one the upload used and none the client was given before;
\* a token that the session has given up never becomes its token again; and
\* an upload that sends another value than the token of the session, such
\* as the token of an earlier successful upload, is answered 403.
C13_TokenRenewed ==
    [][/\ (resp'.kind = "upload" /\ resp'.status = 200) =>
              /\ cookie'[resp'.sess].csrf_token \notin {None, resp'.csrf_token}
              /\ cookie'[resp'.sess].csrf_token \notin Drawn(resp'.sess)
       /\ \A s \in Sessions :
              cookie'[s].csrf_token # cookie[s].csrf_token =>
                  cookie'[s].csrf_token \notin Drawn(s) \cup {None}
       /\ (resp'.kind = "upload" /\ resp'.csrf_token # cookie[resp'.sess].csrf_token) =>
              resp'.status = 403]_vars

\* after a success, an upload that sends a token the session held before
\* is refused
C13_Witness ==
    /\ resp.kind = "upload"
    /\ resp.status = 403
    /\ cookie[resp.sess].output_file # NoName
    /\ resp.csrf_token \in Drawn(resp.sess) \ {cookie[resp.sess].session_id}

\* C14: an upload that reaches the processing step while ANTHROPIC_API_KEY
\* is not set is answered there, with 500 and the message 'API
\* configuration error. Please contact the administrator.'; it has called
\* no stage, the output folder is as before and so is the output_file of
\* the session.
C14_NoApiKey ==
    [][/\ \A r \in Workers :
              (~api_key /\ req[r].pc = "process" /\ req'[r] # req[r]) =>
                  /\ resp'.kind = "upload"
                  /\ resp'.rid = req[r].rid
                  /\ resp'.exc = "API key missing"
       /\ (resp'.kind = "upload" /\ resp'.exc = "API key missing") =>
              /\ resp'.status = 500
              /\ resp'.error = "API configuration error. Please contact the administrator."
              /\ resp'.calls = <<>>
              /\ outputFolder' = outputFolder
              /\ cookie'[resp'.sess].output_file = cookie[resp'.sess].output_file]_vars

\* the key is missing for an upload of a session that has an output from an
\* earlier upload
C14_Witness ==
    /\ resp.kind = "upload"
    /\ resp.exc = "API key missing"
    /\ resp.saved_files # <<>>
    /\ cookie[resp.sess].output_file \in DOMAIN outputFolder

\* the reply is a text of which _extract_json makes nothing
Unparsable(reply) == ~reply.raised /\ ~_extract_json(strip(reply.text, Whitespace)).ok

\* the request of worker r after a step: still running, or just answered
After(running, answered) == IF running.pc = "idle" THEN answered ELSE running

\* json.dumps({"document_quality": "unknown"})
DefaultSummaryText ==
    <<"{", QUOTE, "document_quality", QUOTE, ":", " ", QUOTE, "unknown", QUOTE, "}">>

FirstUnparsable(before, after, answer) ==
    /\ (before.pc = "analysis" /\ after # before /\ Unparsable(After(after, answer).replies[1]))
           => /\ after.pc = "extraction"
              /\ after.doc_summary = JDict(<< <<(<<"document_quality">>), JStr(<<"unknown">>)>> >>)
              /\ answer = NoResponse
    /\ (before.pc = "extraction" /\ after # before /\ Unparsable(before.replies[1]))
           => /\ After(after, answer).calls[2].stage = "extraction"
              /\ After(after, answer).calls[2].prompt = DefaultSummaryText

\* C15: when the reply of stage 1 is a text that _extract_json cannot parse,
\* the request is not answered with an error: the summary becomes
\* {"document_quality": "unknown"}, stage 2 is next, and the prompt of
\* stage 2 carries that summary.
C15_DefaultSummary ==
    [][\A r \in Workers : FirstUnparsable(req[r], req'[r], resp')]_vars

\* stage 2 has been called with the default summary
C15_Witness ==
    \E r \in Workers :
        /\ Len(req[r].calls) >= 2
        /\ Unparsable(req[r].replies[1])
        /\ req[r].calls[2].prompt = DefaultSummaryText

SecondUnparsable(before, after, answer) ==
    (before.pc = "extraction" /\ after # before /\ Unparsable(After(after, answer).replies[2]))
        => /\ after.pc = "idle"
           /\ answer.kind = "upload"
           /\ answer.rid = before.rid
           /\ answer.status = 500
           /\ answer.exc = "ValueError"
           /\ StageNames(answer.calls) = <<"analysis", "extraction">>

\* C16: when the reply of stage 2 is a text that _extract_json cannot parse,
\* the run ends there with ValueError: stages 3 and 4 are not called, the
\* upload is answered 500, the output folder is as it was and so is the
\* output_file of the session.
C16_ExtractionFails ==
    [][\A r \in Workers :
           /\ SecondUnparsable(req[r], req'[r], resp')
           /\ (req[r].pc = "extraction" /\ req'[r].pc = "idle" /\ resp'.exc = "ValueError")
                  => /\ outputFolder' = outputFolder
                     /\ cookie'[resp'.sess].output_file = cookie[resp'.sess].output_file]_vars

\* an upload of a session that has an output already ends at stage 2
C16_Witness ==
    /\ resp.kind = "upload"
    /\ resp.exc = "ValueError"
    /\ Len(resp.replies) = 2
    /\ Unparsable(resp.replies[2])
    /\ cookie[resp.sess].output_file \in DOMAIN outputFolder

\* the corrected_data of the object parsed from a reply
CorrectedData(parsed) == get(parsed.val, <<"corrected_data">>, JNull)

\* a request whose third reply parses to an object with corrected_data has
\* got past stage 3 with that value
ReturnsCorrected(q, parsed) ==
    HasCorrected(parsed) => q.pc # "idle" /\ q.validated_data = CorrectedData(parsed)

\* C17: when the reply of stage 3 parses to an object that has a
\* corrected_data key, _validate_and_calculate returns the value of that
\* key, whatever is_balanced, balance_difference and corrections_made are:
\* the run goes on to stage 4 with it and does not end at stage 3.
C17_CorrectedDataReturned ==
    /\ \A r \in Workers :
           (Len(req[r].replies) >= 3 /\ ~req[r].replies[3].raised) =>
               ReturnsCorrected(req[r], _extract_json(strip(req[r].replies[3].text, Whitespace)))
    /\ (resp.kind = "upload" /\ Len(resp.replies) = 3 /\ ~resp.replies[3].raised) =>
           ~HasCorrected(_extract_json(strip(resp.replies[3].text, Whitespace)))

\* the position of the first '{' of a text, 0 if it has none
FirstBrace(text) == IF Positions(text, "{") = {} THEN 0 ELSE Min(Positions(text, "{"))

\* the JSON value that starts at the first '{' of the text, as the JSON
\* grammar delimits it
ObjectAtFirstBrace(text) ==
    IF FirstBrace(text) = 0 THEN Fail ELSE ParseValue(text, FirstBrace(text))

\* the text is not JSON itself but has an object at its first '{'
HasEmbeddedObject(direct, object) == ~direct.ok /\ object.ok

\* result is what _extract_json made of a text that, cleaned of its
\* fences, is cleaned
ReturnsEmbedded(cleaned, result) ==
    HasEmbeddedObject(json_loads(cleaned), ObjectAtFirstBrace(cleaned))
        => result.ok /\ result.val = ObjectAtFirstBrace(cleaned).val

AllEmbedded(replies) ==
    \A n \in 1 .. Len(replies) :
        ReturnsEmbedded(strip(StripFences(replies[n].text), Whitespace),
                        _extract_json(replies[n].text))

\* C18: when a reply without its fence markers is not JSON itself but has a
\* JSON object that starts at its first '{', _extract_json returns the
\* parse of that object, whatever text stands before and after it.
C18_EmbeddedObject == \A log \in Logs : AllEmbedded(log.replies)

\* stage 1 took its summary from an object with a brace and an escaped
\* quote inside a string, and text with a brace after it
C18_Witness ==
    \E r \in Workers :
        /\ Len(req[r].replies) >= 1
        /\ Positions(req[r].replies[1].text, BSL) # {}
        /\ HasEmbeddedObject(json_loads(req[r].replies[1].text),
                             ObjectAtFirstBrace(req[r].replies[1].text))
        /\ req[r].doc_summary = ObjectAtFirstBrace(req[r].replies[1].text).val

\* no upload that writes outputs under session_id is being served
NoUploadInProgress(session_id) ==
    \A r \in Workers : req[r].pc = "idle" \/ req[r].session_id # session_id

\* C19: whenever no upload of a session is in progress, the PDF and the
\* text backup of the session in the output folder come from the same
\* upload request and so from the same balance-sheet text.
C19_OutputsAgree ==
    \A name \in DOMAIN outputFolder :
        (/\ name[3] = "pdf"
         /\ OutputName(name[1], "txt") \in DOMAIN outputFolder
         /\ NoUploadInProgress(name[1]))
            => /\ outputFolder[name].writer = outputFolder[OutputName(name[1], "txt")].writer
               /\ outputFolder[name].text = outputFolder[OutputName(name[1], "txt")].text

====
